---- MODULE Spec2Model ----
(***************************************************************************)
(* Model of the IndexedDB wrapper library of the Cost Manager application  *)
(* (idb-react.js, openCostsDB and the database object it resolves to), of  *)
(* NotificationProvider (checkBudgets, the notification list and the       *)
(* dismissed set), of the exchange-rate URL saved in Settings and of the   *)
(* validation the add-cost form and the budget dialog do before they call  *)
(* the library.                                                            *)
(*                                                                         *)
(* The object stores are functions from key to record, a record is a       *)
(* function from property name to value, JavaScript numbers are binary     *)
(* floating-point values with a MantBits-bit significand rounded to        *)
(* nearest-even after every arithmetic operation.                          *)
(***************************************************************************)
EXTENDS Integers, Sequences, FiniteSets, TLC

\* ------------------------------------------------------------------------
\* Bounds of the model
\* ------------------------------------------------------------------------

\* significand width of the modelled floating-point numbers (53 in JavaScript)
MantBits == 5

\* number of records a store's key generator hands out
MaxCosts == 2

MaxCategories == 1

MaxBudgets == 2

\* ------------------------------------------------------------------------
\* JavaScript numbers
\* ------------------------------------------------------------------------

RECURSIVE Pow2(_)
Pow2(k) == IF k = 0 THEN 1 ELSE 2 * Pow2(k - 1)

NaN == [nan |-> TRUE, neg |-> FALSE, m |-> 0, e |-> 0]

Zero == [nan |-> FALSE, neg |-> FALSE, m |-> 0, e |-> 0]

\* scale n/d * 2^e until the quotient has exactly MantBits bits
RECURSIVE Normalize(_, _, _)
Normalize(n, d, e) ==
    IF n >= d * Pow2(MantBits) THEN Normalize(n, 2 * d, e + 1)
    ELSE IF n < d * Pow2(MantBits - 1) THEN Normalize(2 * n, d, e - 1)
    ELSE <<n, d, e>>

\* the number nearest to (-1)^neg * n/d * 2^e, ties to even
Round(neg, n, d, e) ==
    IF n = 0 THEN Zero
    ELSE LET t == Normalize(n, d, e)
             q == t[1] \div t[2]
             r == t[1] % t[2]
             up == 2 * r > t[2] \/ (2 * r = t[2] /\ q % 2 = 1)
             mm == IF up THEN q + 1 ELSE q
         IN IF mm = Pow2(MantBits)
            THEN [nan |-> FALSE, neg |-> neg, m |-> Pow2(MantBits - 1), e |-> t[3] + 1]
            ELSE [nan |-> FALSE, neg |-> neg, m |-> mm, e |-> t[3]]

\* a number literal
Num(i) == Round(i < 0, IF i < 0 THEN -i ELSE i, 1, 0)

\* a / b ; no divisor of the model is zero
NumDiv(a, b) ==
    IF a.nan \/ b.nan THEN NaN
    ELSE Round(a.neg # b.neg, a.m, b.m, a.e - b.e)

\* a * b
NumMul(a, b) ==
    IF a.nan \/ b.nan THEN NaN
    ELSE Round(a.neg # b.neg, a.m * b.m, 1, a.e + b.e)

\* a + b
NumAdd(a, b) ==
    IF a.nan \/ b.nan THEN NaN
    ELSE LET lo == IF a.m = 0 THEN b.e ELSE IF b.m = 0 THEN a.e
                   ELSE IF a.e < b.e THEN a.e ELSE b.e
             sa == (IF a.neg THEN -1 ELSE 1) * a.m * Pow2(IF a.m = 0 THEN 0 ELSE a.e - lo)
             sb == (IF b.neg THEN -1 ELSE 1) * b.m * Pow2(IF b.m = 0 THEN 0 ELSE b.e - lo)
             s == sa + sb
         IN Round(s < 0, IF s < 0 THEN -s ELSE s, 1, lo)

\* a - b
NumSub(a, b) ==
    NumAdd(a, IF b.nan \/ b.m = 0 THEN b ELSE [b EXCEPT !.neg = ~b.neg])

\* a as an integer multiple of 2^lo
Scaled(a, lo) ==
    (IF a.neg THEN -1 ELSE 1) * a.m * Pow2(IF a.m = 0 THEN 0 ELSE a.e - lo)

\* a > b ; false when either is NaN
NumGreater(a, b) ==
    /\ ~a.nan
    /\ ~b.nan
    /\ LET lo == IF a.m = 0 THEN b.e ELSE IF b.m = 0 THEN a.e
                 ELSE IF a.e < b.e THEN a.e ELSE b.e
       IN Scaled(a, lo) > Scaled(b, lo)

\* a >= b ; false when either is NaN
NumAtLeast(a, b) ==
    /\ ~a.nan
    /\ ~b.nan
    /\ ~NumGreater(b, a)

\* a > 0
Positive(a) == ~a.nan /\ ~a.neg /\ a.m > 0

\* ToBoolean(a) for a number: false for 0 and NaN
Truthy(a) == ~a.nan /\ a.m # 0

\* ------------------------------------------------------------------------
\* Values the callers pass
\* ------------------------------------------------------------------------

Date(y, mo, d) == [year |-> y, month |-> mo, day |-> d]

\* the days on which the operations run, in the order they pass
Clock == << Date(2023, 12, 31), Date(2024, 1, 1) >>

\* cost objects handed to addCost: the forms pass sum, currency, category and
\* description, the transaction form adds type, a caller may add a date
CostInputs ==
    { [sum |-> Num(3), currency |-> "USD", category |-> "Food", description |-> "d"],
      [sum |-> Num(25), currency |-> "ILS", category |-> "Rent", description |-> "d",
       type |-> "income", date |-> Date(2024, 12, 10)] }

\* partial cost objects handed to updateCost
CostPartials ==
    { [date |-> Date(2023, 1, 1), type |-> "expense"],
      [id |-> 2, sum |-> Num(25)] }

\* the type a transaction is given in the form
TypePartials == { [type |-> "income"], [type |-> "expense"] }

CategoryInputs == { [name |-> "Food", color |-> "red"], [name |-> "Rent", color |-> "blue"] }

CategoryPartials == { [name |-> "Rent", color |-> "blue"], [id |-> 2, color |-> "green"] }

\* budget objects handed to setBudget, as handleSave builds them from the dialog:
\* monthly budgets
MonthlyBudgets ==
    { [year |-> 2023, month |-> 12, amount |-> Num(3), currency |-> "USD", type |-> "monthly"],
      [year |-> 2023, month |-> 12, amount |-> NumDiv(Num(45), Num(4)), currency |-> "ILS",
       type |-> "monthly"] }

\* yearly budgets
YearlyBudgets ==
    { [year |-> 2023, amount |-> Num(3), currency |-> "ILS", type |-> "yearly"] }

\* budgets of a category
CategoryBudgets ==
    { [year |-> 2023, amount |-> Num(1), currency |-> "USD", type |-> "category",
       category |-> "Food"] }

BudgetInputs == YearlyBudgets \cup CategoryBudgets

\* budgets of every type, two of them for the year 2023 as a whole and one for 2024
ScopedBudgets ==
    MonthlyBudgets \cup YearlyBudgets \cup CategoryBudgets \cup
    { [year |-> 2023, amount |-> Num(1), currency |-> "USD", type |-> "yearly"],
      [year |-> 2024, amount |-> Num(3), currency |-> "ILS", type |-> "yearly"] }

\* what the user has put into the fields of the add-cost form
CostForms ==
    { [sum |-> "3", currency |-> "USD", category |-> " Food", description |-> "d"],
      [sum |-> "0", currency |-> "USD", category |-> "Food", description |-> "d"],
      [sum |-> "-3", currency |-> "ILS", category |-> "Food", description |-> "d"],
      [sum |-> "abc", currency |-> "USD", category |-> "Food", description |-> "d"],
      [sum |-> "3", currency |-> "USD", category |-> " ", description |-> "d"],
      [sum |-> "3", currency |-> "USD", category |-> "Food", description |-> ""] }

\* the state of the budget dialog when Save is pressed: the dialog opens with
\* the month of the day and an empty category, whatever type is chosen after
BudgetForms ==
    { [budgetType |-> "monthly", year |-> 2023, month |-> 12, amount |-> "3",
       currency |-> "USD", category |-> ""],
      [budgetType |-> "yearly", year |-> 2023, month |-> 12, amount |-> "3",
       currency |-> "ILS", category |-> ""],
      [budgetType |-> "category", year |-> 2023, month |-> 12, amount |-> "3",
       currency |-> "USD", category |-> "Food"],
      [budgetType |-> "category", year |-> 2023, month |-> 12, amount |-> "3",
       currency |-> "USD", category |-> ""],
      [budgetType |-> "yearly", year |-> 2023, month |-> 12, amount |-> "0",
       currency |-> "USD", category |-> ""],
      [budgetType |-> "monthly", year |-> 2023, month |-> 12, amount |-> "abc",
       currency |-> "USD", category |-> ""],
      [budgetType |-> "monthly", year |-> 2023, month |-> 12, amount |-> "",
       currency |-> "USD", category |-> ""] }

\* cost objects a caller of the library hands to addCost without the form
NonPositiveCosts ==
    { [sum |-> Zero, currency |-> "USD", category |-> "Food", description |-> "d"],
      [sum |-> Num(-3), currency |-> "ILS", category |-> "Rent", description |-> "d"] }

\* partial cost objects that name a sum
SumPartials == { [sum |-> Num(-3)], [sum |-> Zero], [sum |-> Num(13)] }

\* keys the callers name
CostIds == 1 .. (MaxCosts + 1)

CategoryIds == 1 .. (MaxCategories + 1)

ReportYears == {2023, 2024}

ReportMonths == {1, 12}

Currencies == {"USD", "ILS"}

\* bodies the exchange-rate endpoint answers with
RateMaps == { [USD |-> Num(1), ILS |-> Num(3)], [USD |-> Num(1)] }

\* ways the exchange-rate fetch fails: fetch() rejects, response.json() rejects
FetchFailures == {"TypeError: Failed to fetch", "SyntaxError: Unexpected token"}

\* object stores a database opened at the current version may hold
StoreNameSets == { {"costs", "categories", "budgets"}, {"costs"} }

\* process.env as the build may have set it
EnvDefaults ==
    { [REACT_APP_EXCHANGE_RATE_URL |-> ""],
      [REACT_APP_EXCHANGE_RATE_URL |-> "https://env.example/rates.json"] }

\* what the user has put into the URL field of Settings when Save is pressed
UrlTexts == { "https://user.example/rates.json", "https://other.example/rates.json", "" }

NoCall == [op |-> "none"]

NoResult == [op |-> "none"]

NoPass == [pc |-> "none"]

\* ------------------------------------------------------------------------
\* State
\* ------------------------------------------------------------------------

VARIABLES
    objectStoreNames,   \* db.objectStoreNames of the opened database
    costs,              \* object store "costs": key -> record
    costsKey,           \* key generator of "costs" (last key handed out)
    categories,         \* object store "categories"
    categoriesKey,
    budgets,            \* object store "budgets"
    budgetsKey,
    today,              \* index into Clock of the current day (new Date())
    call,               \* the getReport / getStatistics promise in flight
    pass,               \* the checkBudgets call in flight, or the one that ended last
    earlier,            \* the checkBudgets call that was in flight when `pass` was called
    notifications,      \* the notifications state of NotificationProvider
    dismissedNotifications,      \* the dismissedNotifications state of NotificationProvider
    dismissedNotificationsRef,   \* dismissedNotificationsRef.current
    localStorage,       \* localStorage: the item exchangeRateUrl ("" when there is none)
    processEnv,         \* process.env of the build (a variable that is not set is "")
    result              \* outcome of the promise settled last; none once a report is called for
                        \* (before: the store as the operation found it; scanned: the
                        \* costs the first report of getStatistics went over)

vars == << objectStoreNames, costs, costsKey, categories, categoriesKey,
           budgets, budgetsKey, today, call, pass, earlier, notifications,
           dismissedNotifications, dismissedNotificationsRef, localStorage, processEnv,
           result >>

\* what the page keeps for the exchange-rate endpoint
settings == << localStorage, processEnv >>

\* the state of NotificationProvider
provider == << pass, earlier, notifications, dismissedNotifications,
              dismissedNotificationsRef >>

\* the state of the page outside the database
ui == << provider, settings >>

stores == << costs, costsKey, categories, categoriesKey, budgets, budgetsKey >>

EmptyStore == [k \in {} |-> NoResult]

\* the database as the page finds it on its first visit, the provider as mounted
Opened ==
    /\ objectStoreNames \in StoreNameSets
    /\ costs = EmptyStore
    /\ costsKey = 0
    /\ categories = EmptyStore
    /\ categoriesKey = 0
    /\ budgets = EmptyStore
    /\ budgetsKey = 0
    /\ today = 1
    /\ call = NoCall
    /\ pass = NoPass
    /\ earlier = NoPass
    /\ notifications = << >>
    /\ dismissedNotifications = {}
    /\ dismissedNotificationsRef = {}
    /\ localStorage = [exchangeRateUrl |-> ""]
    /\ result = NoResult

\* a build without REACT_APP_EXCHANGE_RATE_URL
Init ==
    /\ Opened
    /\ processEnv = [REACT_APP_EXCHANGE_RATE_URL |-> ""]

\* a build with or without REACT_APP_EXCHANGE_RATE_URL
InitSettings ==
    /\ Opened
    /\ processEnv \in EnvDefaults

\* ------------------------------------------------------------------------
\* Objects and object stores
\* ------------------------------------------------------------------------

\* { ...a, ...b }
Spread(a, b) ==
    [f \in DOMAIN a \cup DOMAIN b |-> IF f \in DOMAIN b THEN b[f] ELSE a[f]]

\* store.add(value) / store.put(value) under key k of a store with keyPath "id"
StorePut(store, k, value) ==
    [j \in DOMAIN store \cup {k} |-> IF j = k THEN Spread(value, [id |-> k]) ELSE store[j]]

\* store.clear() in place of store.delete(k)
StoreClear(store, k) ==
    [j \in {} |-> store[j]]

\* store.delete(k): removes the record if there is one
StoreDelete(store, k) ==
    [j \in DOMAIN store \ {k} |-> store[j]]

\* the records a cursor opened with store.openCursor() visits, in key order
RECURSIVE openCursor(_, _)
openCursor(store, from) ==
    IF \A k \in DOMAIN store : k < from THEN << >>
    ELSE LET k == CHOOSE j \in DOMAIN store :
                      j >= from /\ \A i \in DOMAIN store : i >= from => j <= i
         IN << store[k] >> \o openCursor(store, k + 1)

\* ------------------------------------------------------------------------
\* addCost
\* ------------------------------------------------------------------------

now == Clock[today]

costWithDate(cost) ==
    [sum |-> cost.sum, currency |-> cost.currency, category |-> cost.category,
     description |-> cost.description,
     date |-> [year |-> now.year, month |-> now.month, day |-> now.day]]

\* what addRequest.onsuccess resolves the promise with
addCostResolved(cost) ==
    [sum |-> cost.sum, currency |-> cost.currency, category |-> cost.category,
     description |-> cost.description]

addCost(cost) ==
    /\ costsKey < MaxCosts
    /\ costs' = StorePut(costs, costsKey + 1, costWithDate(cost))
    /\ costsKey' = costsKey + 1
    /\ result' = [op |-> "addCost", arg |-> cost, status |-> "resolved",
                  value |-> addCostResolved(cost), before |-> costs]
    /\ UNCHANGED << objectStoreNames, categories, categoriesKey, budgets, budgetsKey,
                    today, call, ui >>

\* ------------------------------------------------------------------------
\* updateCost, deleteCost
\* ------------------------------------------------------------------------

\* the spreads in the wrong order: { ...cost, ...existing, id: existing.id }
updatedExistingWins(existing, cost) ==
    Spread(Spread(cost, existing), [id |-> existing.id])

\* the spreads without the id that follows them: { ...existing, ...cost }
updatedWithoutId(existing, cost) ==
    Spread(existing, cost)

\* { ...existing, ...cost, id: existing.id }
updated(existing, cost) ==
    Spread(Spread(existing, cost), [id |-> existing.id])

\* an update without the `if (!existing)` return: the partial is put as a new record
getRequestOnsuccessUpsert(store, id, partial, notFound) ==
    IF id \notin DOMAIN store
    THEN [status |-> "resolved", value |-> Spread(partial, [id |-> id]),
          store |-> StorePut(store, id, partial)]
    ELSE [status |-> "resolved", value |-> updated(store[id], partial),
          store |-> StorePut(store, updated(store[id], partial).id,
                             updated(store[id], partial))]

\* getRequest.onsuccess of an update: how the promise settles and what the store holds
getRequestOnsuccess(store, id, partial, notFound) ==
    IF id \notin DOMAIN store
    THEN [status |-> "rejected", error |-> notFound, store |-> store]
    ELSE [status |-> "resolved", value |-> updated(store[id], partial),
          store |-> StorePut(store, updated(store[id], partial).id,
                             updated(store[id], partial))]

\* the promise's outcome as `result` records it
Settled(op, id, arg, outcome, before) ==
    IF outcome.status = "resolved"
    THEN [op |-> op, id |-> id, arg |-> arg, status |-> "resolved",
          value |-> outcome.value, before |-> before]
    ELSE [op |-> op, id |-> id, arg |-> arg, status |-> "rejected",
          error |-> outcome.error, before |-> before]

updateCost(id, cost) ==
    /\ costs' = getRequestOnsuccess(costs, id, cost, "Cost item not found").store
    /\ result' = Settled("updateCost", id, cost,
                         getRequestOnsuccess(costs, id, cost, "Cost item not found"),
                         costs)
    /\ UNCHANGED << objectStoreNames, costsKey, categories, categoriesKey, budgets,
                    budgetsKey, today, call, ui >>

deleteCost(id) ==
    /\ costs' = StoreDelete(costs, id)
    /\ result' = [op |-> "deleteCost", id |-> id, status |-> "resolved", before |-> costs]
    /\ UNCHANGED << objectStoreNames, costsKey, categories, categoriesKey, budgets,
                    budgetsKey, today, call, ui >>

\* ------------------------------------------------------------------------
\* addCategory, updateCategory, deleteCategory
\* ------------------------------------------------------------------------

\* the category as passed in, without the generated key
newCategoryWithoutId(category, key) == category

\* { ...category, id: request.result }
newCategory(category, key) == Spread(category, [id |-> key])

addCategory(category) ==
    /\ IF "categories" \notin objectStoreNames
       THEN /\ result' = [op |-> "addCategory", arg |-> category, status |-> "rejected",
                          error |-> "Categories object store does not exist",
                          before |-> categories]
            /\ UNCHANGED << categories, categoriesKey >>
       ELSE /\ categoriesKey < MaxCategories
            /\ categories' = StorePut(categories, categoriesKey + 1, category)
            /\ categoriesKey' = categoriesKey + 1
            /\ result' = [op |-> "addCategory", arg |-> category, status |-> "resolved",
                          value |-> newCategory(category, categoriesKey + 1),
                          before |-> categories]
    /\ UNCHANGED << objectStoreNames, costs, costsKey, budgets, budgetsKey, today, call, ui >>

updateCategory(id, category) ==
    /\ IF "categories" \notin objectStoreNames
       THEN \* db.transaction(["categories"]) throws inside the promise executor
            /\ result' = [op |-> "updateCategory", id |-> id, arg |-> category,
                          status |-> "rejected", error |-> "NotFoundError",
                          before |-> categories]
            /\ categories' = categories
       ELSE /\ categories' =
                  getRequestOnsuccess(categories, id, category, "Category not found").store
            /\ result' = Settled("updateCategory", id, category,
                                 getRequestOnsuccess(categories, id, category,
                                                     "Category not found"),
                                 categories)
    /\ UNCHANGED << objectStoreNames, costs, costsKey, categoriesKey, budgets, budgetsKey,
                    today, call, ui >>

deleteCategory(id) ==
    /\ IF "categories" \notin objectStoreNames
       THEN /\ result' = [op |-> "deleteCategory", id |-> id, status |-> "rejected",
                          error |-> "NotFoundError", before |-> categories]
            /\ categories' = categories
       ELSE /\ categories' = StoreDelete(categories, id)
            /\ result' = [op |-> "deleteCategory", id |-> id, status |-> "resolved",
                          before |-> categories]
    /\ UNCHANGED << objectStoreNames, costs, costsKey, categoriesKey, budgets, budgetsKey,
                    today, call, ui >>

\* ------------------------------------------------------------------------
\* setBudget
\* ------------------------------------------------------------------------

\* { ...budget, id: request.result }
newBudget(budget, key) == Spread(budget, [id |-> key])

setBudget(budget) ==
    /\ IF "budgets" \notin objectStoreNames
       THEN /\ result' = [op |-> "setBudget", arg |-> budget, status |-> "rejected",
                          error |-> "Budgets object store does not exist",
                          before |-> budgets]
            /\ UNCHANGED << budgets, budgetsKey >>
       ELSE /\ budgetsKey < MaxBudgets
            /\ budgets' = StorePut(budgets, budgetsKey + 1, budget)
            /\ budgetsKey' = budgetsKey + 1
            /\ result' = [op |-> "setBudget", arg |-> budget, status |-> "resolved",
                          value |-> newBudget(budget, budgetsKey + 1),
                          before |-> budgets]
    /\ UNCHANGED << objectStoreNames, costs, costsKey, categories, categoriesKey, today,
                    call, ui >>

\* ------------------------------------------------------------------------
\* The forms: AddCostForm.handleSubmit, BudgetManager.handleSave
\* ------------------------------------------------------------------------

\* parseFloat(text) of the texts of the forms
parseFloat(text) ==
    CASE text = "3" -> Num(3)
      [] text = "0" -> Zero
      [] text = "-3" -> Num(-3)
      [] OTHER -> NaN

\* text.trim() of the texts of the forms
trim(text) ==
    CASE text = " " -> ""
      [] text = " Food" -> "Food"
      [] OTHER -> text

\* isNaN(value) || value <= 0
notPositive(value) == value.nan \/ ~Positive(value)

\* the handler returned after toast.error(message): nothing is written
toastError(op, form, message) ==
    /\ result' = [op |-> op, arg |-> form, status |-> "invalid", error |-> message]
    /\ UNCHANGED << objectStoreNames, stores, today, call, ui >>

\* the submit handler of the add-cost form
handleSubmit(form) ==
    IF notPositive(parseFloat(form.sum))
    THEN toastError("handleSubmit", form, "Please enter a valid positive number for sum")
    ELSE IF trim(form.category) = ""
    THEN toastError("handleSubmit", form, "Please enter a category")
    ELSE IF trim(form.description) = ""
    THEN toastError("handleSubmit", form, "Please enter a description")
    ELSE addCost([sum |-> parseFloat(form.sum), currency |-> form.currency,
                  category |-> trim(form.category),
                  description |-> trim(form.description)])

\* { year, amount, currency, type, ...(monthly && { month }),
\*   ...(category && category && { category }) }
budgetData(form) ==
    Spread(Spread([year |-> form.year, amount |-> parseFloat(form.amount),
                   currency |-> form.currency, type |-> form.budgetType],
                  IF form.budgetType = "monthly"
                  THEN [month |-> form.month] ELSE [f \in {} |-> 0]),
           IF form.budgetType = "category" /\ form.category # ""
           THEN [category |-> form.category] ELSE [f \in {} |-> 0])

\* the Save button of the budget dialog
handleSave(form) ==
    IF form.amount = ""
    THEN toastError("handleSave", form, "Please enter an amount")
    ELSE IF notPositive(parseFloat(form.amount))
    THEN toastError("handleSave", form, "Please enter a valid amount")
    ELSE setBudget(budgetData(form))

\* the Save button of Settings: localStorage.setItem('exchangeRateUrl', exchangeRateUrl)
settingsHandleSave(text) ==
    /\ localStorage' = [localStorage EXCEPT !.exchangeRateUrl = text]
    /\ result' = [op |-> "Settings.handleSave", arg |-> text, status |-> "saved"]
    /\ UNCHANGED << objectStoreNames, stores, today, call, provider, processEnv >>

\* ------------------------------------------------------------------------
\* getReport
\* ------------------------------------------------------------------------

\* rates[currency]; a missing entry is undefined, which arithmetic turns to NaN
rateOf(rates, currency) ==
    IF currency \in DOMAIN rates THEN rates[currency] ELSE NaN

\* the filter with the year left out of the comparison
matchesAnyYear(value, year, month) ==
    /\ "date" \in DOMAIN value
    /\ value.date.month = month

\* the cursor's filter: value.date && value.date.year === year && value.date.month === month
matches(value, year, month) ==
    /\ "date" \in DOMAIN value
    /\ value.date.year = year
    /\ value.date.month = month

\* the array `costs` the cursor loop of getReport collects
matchedCosts(store, year, month) ==
    SelectSeq(openCursor(store, 1), LAMBDA value : matches(value, year, month))

\* amountInUSD = cost.sum / rates[cost.currency]; convertedSum = amountInUSD * rates[currency]
convertedSum(cost, rates, currency) ==
    NumMul(NumDiv(cost.sum, rateOf(rates, cost.currency)), rateOf(rates, currency))

\* the callback of costs.map
convertedCost(cost, rates, currency) ==
    [sum |-> convertedSum(cost, rates, currency),
     currency |-> currency,
     category |-> cost.category,
     description |-> cost.description,
     Date |-> [day |-> cost.date.day]]

convertedCosts(matched, rates, currency) ==
    [i \in 1 .. Len(matched) |-> convertedCost(matched[i], rates, currency)]

\* a reducer that returns item.sum instead of sum + item.sum
RECURSIVE reduceSumLast(_, _)
reduceSumLast(items, acc) ==
    IF items = << >> THEN acc
    ELSE reduceSumLast(Tail(items), Head(items).sum)

\* items.reduce(function (sum, item) { return sum + item.sum; }, acc)
RECURSIVE reduceSum(_, _)
reduceSum(items, acc) ==
    IF items = << >> THEN acc
    ELSE reduceSum(Tail(items), NumAdd(acc, Head(items).sum))

\* the report getReport resolves with
report(store, year, month, currency, rates) ==
    LET items == convertedCosts(matchedCosts(store, year, month), rates, currency)
    IN [year |-> year,
        month |-> month,
        costs |-> items,
        total |-> [currency |-> currency, total |-> reduceSum(items, Zero)]]

\* the hardcoded URL
fallbackUrl ==
    "https://gist.githubusercontent.com/Pafestivo/e4e1c962472306b578983a6a0c40828e/raw/exchange-rates.json"

\* the environment default ahead of the saved item
exchangeRateUrlEnvFirst(storage, env) ==
    IF env.REACT_APP_EXCHANGE_RATE_URL # "" THEN env.REACT_APP_EXCHANGE_RATE_URL
    ELSE IF storage.exchangeRateUrl # "" THEN storage.exchangeRateUrl
    ELSE fallbackUrl

\* localStorage.getItem("exchangeRateUrl") || process.env.REACT_APP_EXCHANGE_RATE_URL
\*   || the hardcoded URL
exchangeRateUrl(storage, env) ==
    IF storage.exchangeRateUrl # "" THEN storage.exchangeRateUrl
    ELSE IF env.REACT_APP_EXCHANGE_RATE_URL # "" THEN env.REACT_APP_EXCHANGE_RATE_URL
    ELSE fallbackUrl

\* getReport(year, month, currency) is called: the URL is read and the rates are
\* being fetched from it (saved: the item as the call found it)
getReportCall(year, month, currency) ==
    /\ call = NoCall
    /\ call' = [op |-> "getReport", year |-> year, month |-> month,
                currency |-> currency, pc |-> "report", fetched |-> << >>,
                url |-> exchangeRateUrl(localStorage, processEnv),
                saved |-> localStorage.exchangeRateUrl]
    /\ result' = NoResult
    /\ UNCHANGED << objectStoreNames, stores, today, ui >>

\* the fetch and response.json() resolved with rates: scan, convert, resolve
getReportRates(rates) ==
    /\ call.op = "getReport"
    /\ result' = [op |-> "getReport", year |-> call.year, month |-> call.month,
                  currency |-> call.currency, status |-> "resolved",
                  value |-> report(costs, call.year, call.month, call.currency, rates),
                  fetched |-> Append(call.fetched, [ok |-> TRUE, rates |-> rates]),
                  url |-> call.url, saved |-> call.saved]
    /\ call' = NoCall
    /\ UNCHANGED << objectStoreNames, stores, today, ui >>

\* ------------------------------------------------------------------------
\* getStatistics
\* ------------------------------------------------------------------------

\* new Date(year, month, 0).getDate()
daysInMonth(year, month) ==
    IF month \in {4, 6, 9, 11} THEN 30
    ELSE IF month # 2 THEN 31
    ELSE IF (year % 4 = 0 /\ year % 100 # 0) \/ year % 400 = 0 THEN 29
    ELSE 28

lastMonth(month) == IF month = 1 THEN 12 ELSE month - 1

\* the year kept when the month wraps from January to December
lastYearSame(year, month) == year

lastYear(year, month) == IF month = 1 THEN year - 1 ELSE year

\* currentReport.costs.forEach: add to the category's entry when it is truthy
RECURSIVE totalByCategory(_, _)
totalByCategory(items, acc) ==
    IF items = << >> THEN acc
    ELSE LET cost == Head(items)
             entry == IF cost.category \in DOMAIN acc /\ Truthy(acc[cost.category])
                      THEN NumAdd(acc[cost.category], cost.sum)
                      ELSE cost.sum
         IN totalByCategory(Tail(items),
                            [c \in DOMAIN acc \cup {cost.category} |->
                                IF c = cost.category THEN entry ELSE acc[c]])

\* a month after a month without costs counted as a change of 100 percent
changePercentageFromNothing(totalThisMonth, totalLastMonth) ==
    IF Positive(totalLastMonth)
    THEN NumMul(NumDiv(NumSub(totalThisMonth, totalLastMonth), totalLastMonth), Num(100))
    ELSE IF Positive(totalThisMonth) THEN Num(100) ELSE Zero

\* totalLastMonth > 0 ? ((totalThisMonth - totalLastMonth) / totalLastMonth) * 100 : 0
changePercentage(totalThisMonth, totalLastMonth) ==
    IF Positive(totalLastMonth)
    THEN NumMul(NumDiv(NumSub(totalThisMonth, totalLastMonth), totalLastMonth), Num(100))
    ELSE Zero

stats(year, month, currency, currentReport, lastReport) ==
    [totalThisMonth |-> currentReport.total.total,
     totalLastMonth |-> lastReport.total.total,
     averageDaily |-> NumDiv(currentReport.total.total, Num(daysInMonth(year, month))),
     totalByCategory |-> totalByCategory(currentReport.costs, [c \in {} |-> Zero]),
     changePercentage |-> changePercentage(currentReport.total.total,
                                           lastReport.total.total),
     currency |-> currency]

\* getStatistics(year, month, currency) is called: it fetches the rates itself
getStatisticsCall(year, month, currency) ==
    /\ call = NoCall
    /\ call' = [op |-> "getStatistics", year |-> year, month |-> month,
                currency |-> currency, pc |-> "rates", fetched |-> << >>]
    /\ result' = NoResult
    /\ UNCHANGED << objectStoreNames, stores, today, ui >>

\* its own fetch resolved: the rates are dropped and getReport is called
getStatisticsRates(rates) ==
    /\ call.op = "getStatistics"
    /\ call.pc = "rates"
    /\ call' = [call EXCEPT !.pc = "current", !.fetched = Append(@, [ok |-> TRUE, rates |-> rates])]
    /\ UNCHANGED << objectStoreNames, stores, today, result, ui >>

\* getReport(year, month, currency) resolved: getReport of the month before is called
getStatisticsCurrent(rates) ==
    /\ call.op = "getStatistics"
    /\ call.pc = "current"
    /\ call' = [op |-> "getStatistics", year |-> call.year, month |-> call.month,
                currency |-> call.currency, pc |-> "last",
                fetched |-> Append(call.fetched, [ok |-> TRUE, rates |-> rates]),
                scanned |-> costs,
                currentReport |-> report(costs, call.year, call.month, call.currency,
                                         rates)]
    /\ UNCHANGED << objectStoreNames, stores, today, result, ui >>

\* getReport(lastYear, lastMonth, currency) resolved: the statistics are resolved
getStatisticsLast(rates) ==
    /\ call.op = "getStatistics"
    /\ call.pc = "last"
    /\ result' = [op |-> "getStatistics", year |-> call.year, month |-> call.month,
                  currency |-> call.currency, status |-> "resolved",
                  value |-> stats(call.year, call.month, call.currency,
                                  call.currentReport,
                                  report(costs, lastYear(call.year, call.month),
                                         lastMonth(call.month), call.currency, rates)),
                  scanned |-> call.scanned,
                  fetched |-> Append(call.fetched, [ok |-> TRUE, rates |-> rates])]
    /\ call' = NoCall
    /\ UNCHANGED << objectStoreNames, stores, today, ui >>

\* getStatistics without the .catch(reject) of its own fetch: it carries on
fetchRejectedSwallowed(error) ==
    /\ call.op \in {"getReport", "getStatistics"}
    /\ IF call.op = "getStatistics" /\ call.pc = "rates"
       THEN /\ call' = [call EXCEPT !.pc = "current",
                                    !.fetched = Append(@, [ok |-> FALSE, error |-> error])]
            /\ result' = result
       ELSE /\ result' = [op |-> call.op, year |-> call.year, month |-> call.month,
                          currency |-> call.currency, status |-> "rejected",
                          error |-> error,
                          fetched |-> Append(call.fetched, [ok |-> FALSE, error |-> error])]
            /\ call' = NoCall
    /\ UNCHANGED << objectStoreNames, stores, today, ui >>

\* the fetch of the promise in flight rejected, or its body was not JSON:
\* getReport's .catch rejects, and each .catch(reject) of getStatistics passes it on
fetchRejected(error) ==
    /\ call.op \in {"getReport", "getStatistics"}
    /\ result' = [op |-> call.op, year |-> call.year, month |-> call.month,
                  currency |-> call.currency, status |-> "rejected", error |-> error,
                  fetched |-> Append(call.fetched, [ok |-> FALSE, error |-> error])]
    /\ call' = NoCall
    /\ UNCHANGED << objectStoreNames, stores, today, ui >>

\* ------------------------------------------------------------------------
\* checkBudgets
\* ------------------------------------------------------------------------

\* the notification pushed for a budget that is exceeded (the message and the
\* timestamp are texts shown to the user and are left out)
budgetExceeded(budget) ==
    [id |-> << "budget-exceeded", budget.id >>, type |-> "budget_exceeded", read |-> FALSE]

budgetWarning(budget) ==
    [id |-> << "budget-warning", budget.id >>, type |-> "budget_warning", read |-> FALSE]

\* (spent / budget.amount) * 100
percentage(spent, budget) == NumMul(NumDiv(spent, budget.amount), Num(100))

\* the comparison spent >= budget.amount in place of spent > budget.amount
pushedAtTheLimit(budget, spent) ==
    IF NumAtLeast(spent, budget.amount) THEN << budgetExceeded(budget) >>
    ELSE IF NumAtLeast(percentage(spent, budget), Num(80)) THEN << budgetWarning(budget) >>
    ELSE << >>

\* what the if / else if after the computation of spent pushes to newNotifications
pushed(budget, spent) ==
    IF NumGreater(spent, budget.amount) THEN << budgetExceeded(budget) >>
    ELSE IF NumAtLeast(percentage(spent, budget), Num(80)) THEN << budgetWarning(budget) >>
    ELSE << >>

\* what is kept of a budget the loop is through with: the outcome, and for the
\* reports it awaited the rate maps they fetched, the costs store the last of
\* them went over and whether all of them went over the same store
logged(p, status, spent, signals) ==
    [budget |-> p.budgets[p.i], status |-> status, spent |-> spent, pushed |-> signals,
     rates |-> p.rates, scanned |-> p.scanned, steady |-> p.steady]

\* the loop goes on to the next budget
nextBudget(p) ==
    [p EXCEPT !.i = @ + 1, !.m = 0, !.total = Zero, !.rates = {}, !.scanned = EmptyStore,
              !.steady = TRUE]

\* the end of the try block of a budget: spent is known and the signal is pushed
tryEnd(p, spent) ==
    nextBudget([p EXCEPT !.newNotifications = @ \o pushed(p.budgets[p.i], spent),
                         !.log = Append(@, logged(p, "evaluated", spent,
                                                  pushed(p.budgets[p.i], spent)))])

\* a catch block that gives up the budgets that follow as well
catchAll(p) ==
    [nextBudget([p EXCEPT !.log = Append(@, logged(p, "failed", Zero, << >>))])
        EXCEPT !.i = Len(p.budgets) + 1]

\* the catch block of a budget: nothing is pushed
catch(p) ==
    nextBudget([p EXCEPT !.log = Append(@, logged(p, "failed", Zero, << >>))])

\* a yearly loop that stops before December: for (let m = 1; m < 12; m++)
yearGoesOnBefore12(m) == m + 1 < 12

\* the yearly loop after the report of month m: m++ and then m <= 12
yearGoesOn(m) == m + 1 <= 12

\* for (const budget of budgets): runs from budget p.i on until a getReport is
\* awaited or the budgets are through; a budget that is neither monthly with a
\* month nor yearly keeps spent = 0
RECURSIVE forBudgets(_, _)
forBudgets(p, store) ==
    IF p.i > Len(p.budgets) THEN [p EXCEPT !.pc = "done"]
    ELSE LET budget == p.budgets[p.i]
         IN IF budget.type = "monthly" /\ "month" \in DOMAIN budget
            THEN [p EXCEPT !.pc = "getReport", !.m = budget.month]
            ELSE IF budget.type = "yearly"
            THEN [p EXCEPT !.pc = "getReport", !.m = 1]
            ELSE forBudgets(tryEnd([p EXCEPT !.scanned = store], Zero), store)

\* an updater that does not look at the ids in the list
setNotificationsNotDismissed(prev, newNotifications, dismissed) ==
    prev \o SelectSeq(newNotifications, LAMBDA n : n.id \notin dismissed)

\* the updater handed to setNotifications: the new notifications whose id is
\* neither in the list nor dismissed are appended
setNotifications(prev, newNotifications, dismissed) ==
    prev \o SelectSeq(newNotifications,
                      LAMBDA n : /\ \A j \in 1 .. Len(prev) : prev[j].id # n.id
                                 /\ n.id \notin dismissed)

\* the pass goes on as p: when the budgets are through the notifications are set
passGoesOn(p) ==
    /\ pass' = p
    /\ notifications' = IF p.pc = "done"
                        THEN setNotifications(notifications, p.newNotifications,
                                              dismissedNotificationsRef)
                        ELSE notifications
    /\ UNCHANGED << objectStoreNames, stores, today, call, earlier,
                    dismissedNotifications, dismissedNotificationsRef, settings, result >>

\* checkBudgets(db) is called, on the opening of the database and every minute
\* after: getAllBudgets is awaited
checkBudgets ==
    /\ pass.pc \in {"none", "done"}
    /\ pass' = [pc |-> "getAllBudgets"]
    /\ UNCHANGED << objectStoreNames, stores, today, call, earlier, notifications,
                    dismissedNotifications, dismissedNotificationsRef, settings, result >>

\* a call after getAllBudgets resolved, with [] when there is no budgets store
afterGetAllBudgets ==
    forBudgets([pc |-> "for",
                budgets |-> IF "budgets" \in objectStoreNames
                            THEN openCursor(budgets, 1) ELSE << >>,
                i |-> 1, m |-> 0, total |-> Zero,
                rates |-> {}, scanned |-> EmptyStore, steady |-> TRUE,
                newNotifications |-> << >>, log |-> << >>],
               costs)

\* the call q after the getReport it awaited resolved over the rates it fetched
afterGetReport(q, rates) ==
    LET budget == q.budgets[q.i]
        total == report(costs, budget.year, q.m, budget.currency, rates).total.total
        p == [q EXCEPT !.rates = @ \cup {rates}, !.scanned = costs,
                       !.steady = @ /\ (q.rates = {} \/ q.scanned = costs)]
    IN IF budget.type = "monthly"
       THEN forBudgets(tryEnd(p, total), costs)
       ELSE IF yearGoesOn(q.m)
       THEN [p EXCEPT !.m = @ + 1, !.total = NumAdd(@, total)]
       ELSE forBudgets(tryEnd(p, NumAdd(q.total, total)), costs)

\* getAllBudgets resolved
checkBudgetsGetAllBudgets ==
    /\ pass.pc = "getAllBudgets"
    /\ passGoesOn(afterGetAllBudgets)

\* the getReport awaited for the budget resolved
checkBudgetsGetReport(rates) ==
    /\ pass.pc = "getReport"
    /\ passGoesOn(afterGetReport(pass, rates))

\* the getReport awaited for the budget rejected: the budget's catch block runs
checkBudgetsGetReportRejected(error) ==
    /\ pass.pc = "getReport"
    /\ passGoesOn(forBudgets(catch(pass), costs))

\* checkBudgets(db) is called while a call is in flight: the effect of AppInner runs
\* again when the provider has rendered, and the interval fires every minute
checkBudgetsOverlapping ==
    /\ pass.pc \notin {"none", "done"}
    /\ earlier.pc \in {"none", "done"}
    /\ earlier' = pass
    /\ pass' = [pc |-> "getAllBudgets"]
    /\ UNCHANGED << objectStoreNames, stores, today, call, notifications,
                    dismissedNotifications, dismissedNotificationsRef, settings, result >>

\* the earlier call goes on as p
earlierGoesOn(p) ==
    /\ earlier' = p
    /\ notifications' = IF p.pc = "done"
                        THEN setNotifications(notifications, p.newNotifications,
                                              dismissedNotificationsRef)
                        ELSE notifications
    /\ UNCHANGED << objectStoreNames, stores, today, call, pass,
                    dismissedNotifications, dismissedNotificationsRef, settings, result >>

\* the steps of the earlier call
earlierGetAllBudgets ==
    /\ earlier.pc = "getAllBudgets"
    /\ earlierGoesOn(afterGetAllBudgets)

earlierGetReport(rates) ==
    /\ earlier.pc = "getReport"
    /\ earlierGoesOn(afterGetReport(earlier, rates))

earlierGetReportRejected(error) ==
    /\ earlier.pc = "getReport"
    /\ earlierGoesOn(forBudgets(catch(earlier), costs))

\* ------------------------------------------------------------------------
\* markAsRead, markAllAsRead, clearNotification, clearAll
\* ------------------------------------------------------------------------

\* the ids of the notifications of a list
idsOf(list) == {list[j].id : j \in 1 .. Len(list)}

\* prev.map(n => n.id === id ? { ...n, read: true } : n)
markedAsRead(prev, id) ==
    [j \in 1 .. Len(prev) |-> IF prev[j].id = id THEN [prev[j] EXCEPT !.read = TRUE]
                              ELSE prev[j]]

\* the buttons of the notification centre act on a notification that is shown
markAsRead(id) ==
    /\ id \in idsOf(notifications)
    /\ notifications' = markedAsRead(notifications, id)
    /\ UNCHANGED << objectStoreNames, stores, today, call, pass, earlier,
                    dismissedNotifications, dismissedNotificationsRef, settings, result >>

markAllAsRead ==
    /\ notifications # << >>
    /\ notifications' = [j \in 1 .. Len(notifications) |->
                             [notifications[j] EXCEPT !.read = TRUE]]
    /\ UNCHANGED << objectStoreNames, stores, today, call, pass, earlier,
                    dismissedNotifications, dismissedNotificationsRef, settings, result >>

\* both updaters run when the provider renders; the ref is left to the effect
clearNotification(id) ==
    /\ id \in idsOf(notifications)
    /\ notifications' = SelectSeq(notifications, LAMBDA n : n.id # id)
    /\ dismissedNotifications' = dismissedNotifications \cup {id}
    /\ UNCHANGED << objectStoreNames, stores, today, call, pass, earlier,
                    dismissedNotificationsRef, settings, result >>

clearAll ==
    /\ notifications # << >>
    /\ notifications' = << >>
    /\ dismissedNotifications' = dismissedNotifications \cup idsOf(notifications)
    /\ UNCHANGED << objectStoreNames, stores, today, call, pass, earlier,
                    dismissedNotificationsRef, settings, result >>

\* the effect on [dismissedNotifications], run after the render that changed it:
\* dismissedNotificationsRef.current = dismissedNotifications
dismissedNotificationsEffect ==
    /\ dismissedNotificationsRef # dismissedNotifications
    /\ dismissedNotificationsRef' = dismissedNotifications
    /\ UNCHANGED << objectStoreNames, stores, today, call, pass, earlier, notifications,
                    dismissedNotifications, settings, result >>

\* ------------------------------------------------------------------------
\* getAllCosts, getCostsByDateRange
\* ------------------------------------------------------------------------

\* request.error of a storage request that fails
RequestErrors == {"UnknownError"}

\* the request succeeded
NoError == "none"

RequestOutcomes == RequestErrors \cup {NoError}

\* store.getAll(): the records in key order
getAll(store) == openCursor(store, 1)

getAllCosts(error) ==
    /\ result' = IF error = NoError
                 THEN [op |-> "getAllCosts", status |-> "resolved",
                       value |-> getAll(costs), before |-> costs]
                 ELSE [op |-> "getAllCosts", status |-> "rejected", error |-> error,
                       before |-> costs]
    /\ UNCHANGED << objectStoreNames, stores, today, call, ui >>

\* the dates the filters and the export hand over as startDate and endDate
RangeDates == { Date(2023, 12, 31), Date(2024, 1, 1), Date(2024, 1, 31), Date(2024, 2, 1) }

\* the dates an edit moves a cost to
DatePartials == { [date |-> Date(2024, 1, 31)], [date |-> Date(2024, 2, 1)] }

\* days from 1 January 1970 to 1 January of the year
DayFromYear(y) ==
    365 * (y - 1970) + ((y - 1969) \div 4) - ((y - 1901) \div 100) + ((y - 1601) \div 400)

\* days from 1 January to the first day of the month with index monthIndex (0-11)
RECURSIVE DaysBeforeMonth(_, _)
DaysBeforeMonth(year, monthIndex) ==
    IF monthIndex = 0 THEN 0
    ELSE daysInMonth(year, monthIndex) + DaysBeforeMonth(year, monthIndex - 1)

\* new Date(year, monthIndex, day) as the day number of its time value: a month
\* index past 11 and a day past the month's end run over into what follows
newDate(year, monthIndex, day) ==
    DayFromYear(year + (monthIndex \div 12))
    + DaysBeforeMonth(year + (monthIndex \div 12), monthIndex % 12)
    + day - 1

\* the range with the start left out: current > start && current <= end
inRangeAfterStart(date, startDate, endDate) ==
    /\ newDate(date.year, date.month - 1, date.day)
          > newDate(startDate.year, startDate.month - 1, startDate.day)
    /\ newDate(date.year, date.month - 1, date.day)
          <= newDate(endDate.year, endDate.month - 1, endDate.day)

\* current >= start && current <= end
inRange(date, startDate, endDate) ==
    /\ newDate(date.year, date.month - 1, date.day)
          >= newDate(startDate.year, startDate.month - 1, startDate.day)
    /\ newDate(date.year, date.month - 1, date.day)
          <= newDate(endDate.year, endDate.month - 1, endDate.day)

getCostsByDateRange(startDate, endDate, error) ==
    /\ result' = IF error = NoError
                 THEN [op |-> "getCostsByDateRange", startDate |-> startDate,
                       endDate |-> endDate, status |-> "resolved",
                       value |-> SelectSeq(openCursor(costs, 1),
                                           LAMBDA value : inRange(value.date, startDate, endDate)),
                       before |-> costs]
                 ELSE [op |-> "getCostsByDateRange", startDate |-> startDate,
                       endDate |-> endDate, status |-> "rejected", error |-> error,
                       before |-> costs]
    /\ UNCHANGED << objectStoreNames, stores, today, call, ui >>

\* ------------------------------------------------------------------------
\* getCategories, getAllBudgets, getBudget
\* ------------------------------------------------------------------------

\* null
Null == [null |-> TRUE]

\* the months getBudget is asked for; 0 stands for a month that is not given
BudgetMonths == {0, 12}

\* the categories getBudget is asked for; "" stands for a category that is not given
BudgetCategories == {"", "Food"}

getCategories(error) ==
    /\ result' = IF "categories" \notin objectStoreNames
                 THEN [op |-> "getCategories", status |-> "resolved", value |-> << >>,
                       error |-> NoError, before |-> categories]
                 ELSE IF error = NoError
                 THEN [op |-> "getCategories", status |-> "resolved",
                       value |-> getAll(categories), error |-> NoError,
                       before |-> categories]
                 ELSE \* request.onerror: console.warn, resolve([])
                      [op |-> "getCategories", status |-> "resolved", value |-> << >>,
                       error |-> error, before |-> categories]
    /\ UNCHANGED << objectStoreNames, stores, today, call, ui >>

getAllBudgets(error) ==
    /\ result' = IF "budgets" \notin objectStoreNames
                 THEN [op |-> "getAllBudgets", status |-> "resolved", value |-> << >>,
                       error |-> NoError, before |-> budgets]
                 ELSE IF error = NoError
                 THEN [op |-> "getAllBudgets", status |-> "resolved",
                       value |-> getAll(budgets), error |-> NoError, before |-> budgets]
                 ELSE \* request.onerror: console.warn, resolve([])
                      [op |-> "getAllBudgets", status |-> "resolved", value |-> << >>,
                       error |-> error, before |-> budgets]
    /\ UNCHANGED << objectStoreNames, stores, today, call, ui >>

\* the cursor resolves with a budget of another year as well
budgetFoundAnyYear(budget, year, month, category) ==
    \/ /\ category # ""
       /\ "category" \in DOMAIN budget
       /\ budget.category = category
       /\ budget.type = "category"
    \/ /\ month # 0
       /\ "month" \in DOMAIN budget
       /\ budget.month = month
       /\ budget.type = "monthly"
    \/ /\ month = 0
       /\ category = ""
       /\ budget.type = "yearly"

\* the conditions under which the cursor of getBudget resolves with the budget
budgetFound(budget, year, month, category) ==
    /\ budget.year = year
    /\ \/ /\ category # ""
          /\ "category" \in DOMAIN budget
          /\ budget.category = category
          /\ budget.type = "category"
       \/ /\ month # 0
          /\ "month" \in DOMAIN budget
          /\ budget.month = month
          /\ budget.type = "monthly"
       \/ /\ month = 0
          /\ category = ""
          /\ budget.type = "yearly"

\* what the cursor loop of getBudget resolves with: the first budget found, or null
budgetOrNull(store, year, month, category) ==
    LET found == SelectSeq(openCursor(store, 1),
                           LAMBDA budget : budgetFound(budget, year, month, category))
    IN IF found = << >> THEN Null ELSE Head(found)

getBudget(year, month, category, error) ==
    /\ result' = IF "budgets" \notin objectStoreNames
                 THEN \* db.transaction(["budgets"]) throws inside the promise executor
                      [op |-> "getBudget", year |-> year, month |-> month,
                       category |-> category, status |-> "rejected",
                       error |-> "NotFoundError", before |-> budgets]
                 ELSE IF error = NoError
                 THEN [op |-> "getBudget", year |-> year, month |-> month,
                       category |-> category, status |-> "resolved",
                       value |-> budgetOrNull(budgets, year, month, category),
                       before |-> budgets]
                 ELSE [op |-> "getBudget", year |-> year, month |-> month,
                       category |-> category, status |-> "rejected", error |-> error,
                       before |-> budgets]
    /\ UNCHANGED << objectStoreNames, stores, today, call, ui >>

\* ------------------------------------------------------------------------
\* openCostsDB on a database whose version was raised
\* ------------------------------------------------------------------------

\* if (!db.objectStoreNames.contains(name)) db.createObjectStore(name, ...)
createObjectStore(names, name) ==
    IF name \notin names THEN names \cup {name} ELSE names

\* request.onupgradeneeded: the object stores of the database after the upgrade
onupgradeneeded(names) ==
    createObjectStore(createObjectStore(createObjectStore(names, "costs"), "categories"),
                      "budgets")

\* the page opens the database with a version above the stored one: the upgrade
\* runs, then request.onsuccess resolves the database object
openCostsDB ==
    /\ objectStoreNames' = onupgradeneeded(objectStoreNames)
    /\ result' = [op |-> "openCostsDB", status |-> "resolved",
                  before |-> [objectStoreNames |-> objectStoreNames, costs |-> costs,
                              categories |-> categories, budgets |-> budgets]]
    /\ UNCHANGED << stores, today, call, ui >>

\* a day passes
Tick ==
    /\ today < Len(Clock)
    /\ today' = today + 1
    /\ UNCHANGED << objectStoreNames, stores, call, result, ui >>

\* the operations on the costs store
CostWrites ==
    \/ \E cost \in CostInputs : addCost(cost)
    \/ \E id \in CostIds, cost \in CostPartials : updateCost(id, cost)
    \/ \E id \in CostIds : deleteCost(id)

\* the operations on the categories and budgets stores
CatalogWrites ==
    \/ \E category \in CategoryInputs : addCategory(category)
    \/ \E id \in CategoryIds, category \in CategoryPartials : updateCategory(id, category)
    \/ \E id \in CategoryIds : deleteCategory(id)
    \/ \E budget \in BudgetInputs : setBudget(budget)

\* the record store: every write operation of the three collections
NextStore ==
    \/ CostWrites
    \/ CatalogWrites

SpecStore == Init /\ [][NextStore]_vars

\* the monthly report, called while the costs store is written
ReportCalls ==
    \/ \E year \in ReportYears, month \in ReportMonths, currency \in Currencies :
          getReportCall(year, month, currency)
    \/ \E rates \in RateMaps : getReportRates(rates)
    \/ \E error \in FetchFailures : fetchRejected(error)

\* costs and the reports over them
Next ==
    \/ CostWrites
    \/ Tick
    \/ ReportCalls

Spec == Init /\ [][Next]_vars

\* the statistics, and the reports they are made of, over costs added day by day
NextStatistics ==
    \/ \E cost \in CostInputs : addCost(cost)
    \/ \E id \in CostIds : deleteCost(id)
    \/ Tick
    \/ ReportCalls
    \/ \E year \in ReportYears, month \in ReportMonths, currency \in Currencies :
          getStatisticsCall(year, month, currency)
    \/ \E rates \in RateMaps : getStatisticsRates(rates)
    \/ \E rates \in RateMaps : getStatisticsCurrent(rates)
    \/ \E rates \in RateMaps : getStatisticsLast(rates)

SpecStatistics == Init /\ [][NextStatistics]_vars

\* the statistics over costs whose type is set after they were added
NextTypes ==
    \/ \E cost \in CostInputs : addCost(cost)
    \/ \E id \in CostIds, cost \in TypePartials : updateCost(id, cost)
    \/ \E year \in ReportYears, month \in ReportMonths, currency \in Currencies :
          getStatisticsCall(year, month, currency)
    \/ \E rates \in RateMaps : getStatisticsRates(rates)
    \/ \E rates \in RateMaps : getStatisticsCurrent(rates)
    \/ \E rates \in RateMaps : getStatisticsLast(rates)
    \/ \E error \in FetchFailures : fetchRejected(error)

SpecTypes == Init /\ [][NextTypes]_vars

\* the steps of a pass of checkBudgets
Passes ==
    \/ checkBudgets
    \/ checkBudgetsGetAllBudgets
    \/ \E rates \in RateMaps : checkBudgetsGetReport(rates)
    \/ \E error \in FetchFailures : checkBudgetsGetReportRejected(error)

\* the passes over monthly budgets while costs are added
NextBudgets ==
    \/ \E cost \in CostInputs : addCost(cost)
    \/ \E budget \in MonthlyBudgets : setBudget(budget)
    \/ Passes

SpecBudgets == Init /\ [][NextBudgets]_vars

\* the passes over yearly budgets while costs are added
NextYearly ==
    \/ \E cost \in CostInputs : addCost(cost)
    \/ \E budget \in YearlyBudgets : setBudget(budget)
    \/ Tick
    \/ Passes

SpecYearly == Init /\ [][NextYearly]_vars

\* the passes over budgets of a category, which await no report
NextCategory ==
    \/ \E cost \in CostInputs : addCost(cost)
    \/ \E budget \in CategoryBudgets : setBudget(budget)
    \/ checkBudgets
    \/ checkBudgetsGetAllBudgets

SpecCategory == Init /\ [][NextCategory]_vars

\* the forms, and the callers of the library that go past them
NextForms ==
    \/ \E form \in CostForms : handleSubmit(form)
    \/ \E form \in BudgetForms : handleSave(form)
    \/ \E cost \in NonPositiveCosts : addCost(cost)
    \/ \E id \in CostIds, cost \in SumPartials : updateCost(id, cost)

SpecForms == Init /\ [][NextForms]_vars

\* the costs of two days, moved by edits, and the range query over them
NextRange ==
    \/ \E cost \in CostInputs : addCost(cost)
    \/ \E id \in CostIds, cost \in DatePartials : updateCost(id, cost)
    \/ Tick
    \/ \E startDate \in RangeDates, endDate \in RangeDates, error \in RequestOutcomes :
          getCostsByDateRange(startDate, endDate, error)

SpecRange == Init /\ [][NextRange]_vars

\* the scans of the three collections and the budget lookup, on a database that
\* holds all the collections or the costs only
Reads ==
    \/ \E error \in RequestOutcomes : getAllCosts(error)
    \/ \E error \in RequestOutcomes : getCategories(error)
    \/ \E error \in RequestOutcomes : getAllBudgets(error)
    \/ \E year \in ReportYears, month \in BudgetMonths, category \in BudgetCategories,
          error \in RequestOutcomes : getBudget(year, month, category, error)

NextReads ==
    \/ \E cost \in CostInputs : addCost(cost)
    \/ \E category \in CategoryInputs : addCategory(category)
    \/ \E budget \in BudgetInputs : setBudget(budget)
    \/ Reads

SpecReads == Init /\ [][NextReads]_vars

\* budgets are set and looked up
NextGetBudget ==
    \/ \E budget \in ScopedBudgets : setBudget(budget)
    \/ \E year \in ReportYears, month \in BudgetMonths, category \in BudgetCategories,
          error \in RequestOutcomes : getBudget(year, month, category, error)

SpecGetBudget == Init /\ [][NextGetBudget]_vars

\* the collections are written, and the database is opened again at a raised version
NextUpgrade ==
    \/ \E cost \in CostInputs : addCost(cost)
    \/ \E category \in CategoryInputs : addCategory(category)
    \/ \E budget \in BudgetInputs : setBudget(budget)
    \/ openCostsDB

SpecUpgrade == Init /\ [][NextUpgrade]_vars

\* the reports called while the user saves exchange-rate URLs in Settings
NextSettings ==
    \/ \E cost \in CostInputs : addCost(cost)
    \/ \E text \in UrlTexts : settingsHandleSave(text)
    \/ \E year \in ReportYears, month \in ReportMonths, currency \in Currencies :
          getReportCall(year, month, currency)
    \/ \E rates \in RateMaps : getReportRates(rates)
    \/ \E error \in FetchFailures : fetchRejected(error)

SpecSettings == InitSettings /\ [][NextSettings]_vars

\* the rate map the endpoint serves while the notifications are looked at
ServedRates == { [USD |-> Num(1), ILS |-> Num(3)] }

\* the calls of checkBudgets, one overlapping the other
OverlappingPasses ==
    \/ checkBudgets
    \/ checkBudgetsOverlapping
    \/ checkBudgetsGetAllBudgets
    \/ \E rates \in ServedRates : checkBudgetsGetReport(rates)
    \/ \E error \in FetchFailures : checkBudgetsGetReportRejected(error)
    \/ earlierGetAllBudgets
    \/ \E rates \in ServedRates : earlierGetReport(rates)
    \/ \E error \in FetchFailures : earlierGetReportRejected(error)

\* the buttons of the notification centre
NotificationCentre ==
    \/ \E id \in idsOf(notifications) : markAsRead(id)
    \/ markAllAsRead
    \/ \E id \in idsOf(notifications) : clearNotification(id)
    \/ clearAll
    \/ dismissedNotificationsEffect

\* the page is opened on a database that holds a cost of 3 USD of the day and the
\* two monthly budgets
InitNotifications ==
    /\ objectStoreNames = {"costs", "categories", "budgets"}
    /\ costs = StorePut(EmptyStore, 1,
                        [sum |-> Num(3), currency |-> "USD", category |-> "Food",
                         description |-> "d", date |-> Clock[1]])
    /\ costsKey = 1
    /\ categories = EmptyStore
    /\ categoriesKey = 0
    /\ budgets = StorePut(StorePut(EmptyStore, 1,
                                   CHOOSE b \in MonthlyBudgets : b.currency = "USD"),
                          2, CHOOSE b \in MonthlyBudgets : b.currency = "ILS")
    /\ budgetsKey = 2
    /\ today = 1
    /\ call = NoCall
    /\ pass = NoPass
    /\ earlier = NoPass
    /\ notifications = << >>
    /\ dismissedNotifications = {}
    /\ dismissedNotificationsRef = {}
    /\ localStorage = [exchangeRateUrl |-> ""]
    /\ processEnv = [REACT_APP_EXCHANGE_RATE_URL |-> ""]
    /\ result = NoResult

\* the passes over the budgets and the notification centre
NextNotifications ==
    \/ OverlappingPasses
    \/ NotificationCentre

SpecNotifications == InitNotifications /\ [][NextNotifications]_vars

\* ------------------------------------------------------------------------
\* Properties
\* ------------------------------------------------------------------------

ReportResolved == result.op = "getReport" /\ result.status = "resolved"

\* the keys of the stored costs dated in the given year and month
DatedIn(year, month) ==
    {k \in DOMAIN costs : costs[k].date.year = year /\ costs[k].date.month = month}

\* line i of the report is the line of the stored cost under key k
LineOf(line, k) ==
    /\ line.category = costs[k].category
    /\ line.description = costs[k].description
    /\ line.Date.day = costs[k].date.day

\* C1: a resolved getReport(Y, M, cur) holds exactly one line per stored cost
\* dated in year Y and month M, and no line for any other cost
C1_ReportHoldsExactlyTheMonth ==
    ReportResolved =>
        LET lines == result.value.costs
            keys == DatedIn(result.year, result.month)
        IN /\ Len(lines) = Cardinality(keys)
           /\ \E f \in [1 .. Len(lines) -> keys] :
                 /\ \A i, j \in 1 .. Len(lines) : f[i] = f[j] => i = j
                 /\ \A i \in 1 .. Len(lines) : LineOf(lines[i], f[i])

\* a report of one line while the store holds a cost of the same month of
\* another year and none of the month next to it is counted
C1_Witness ==
    /\ ReportResolved
    /\ Len(result.value.costs) = 1
    /\ \E k \in DOMAIN costs :
          /\ costs[k].date.month = result.month
          /\ costs[k].date.year # result.year

AddCostResolved == result.op = "addCost" /\ result.status = "resolved"

\* the report a later getReport resolves with holds, as its last line, a line of
\* the given day for the cost just added
LaterReportHoldsIt(year, month, day) ==
    \A currency \in Currencies, rates \in RateMaps :
        LET lines == report(costs, year, month, currency, rates).costs
            linesBefore == report(result.before, year, month, currency, rates).costs
        IN /\ Len(lines) = Len(linesBefore) + 1
           /\ lines[Len(lines)].Date.day = day
           /\ lines[Len(lines)].category = result.arg.category

\* C2: a cost added with a caller-supplied type and date is stored under that
\* date and type, and a later getReport of that year and month holds one line
\* for it with Date.day the supplied day
C2_SuppliedDateAndTypeStored ==
    (AddCostResolved /\ {"type", "date"} \subseteq DOMAIN result.arg) =>
        /\ "type" \in DOMAIN costs[costsKey]
        /\ costs[costsKey].type = result.arg.type
        /\ costs[costsKey].date = result.arg.date
        /\ LaterReportHoldsIt(result.arg.date.year, result.arg.date.month,
                              result.arg.date.day)

AddResolved ==
    result.op \in {"addCost", "addCategory", "setBudget"} /\ result.status = "resolved"

\* the collection an operation works on
StoreOf(op) ==
    IF op \in {"addCost", "updateCost", "deleteCost"} THEN costs
    ELSE IF op \in {"addCategory", "updateCategory", "deleteCategory"} THEN categories
    ELSE budgets

\* the value is a record of the collection, under the id it carries
ReadsBack(value, store) ==
    /\ "id" \in DOMAIN value
    /\ value.id \in DOMAIN store
    /\ store[value.id] = value

\* C3 as claimed: every add operation resolves to the record as stored, id
\* included, and the collection holds an equal record under that id
C3_EveryAddResolvesToStoredRecord ==
    AddResolved => ReadsBack(result.value, StoreOf(result.op))

\* C3 as amended: addCategory and setBudget resolve to the record as stored, id
\* included; addCost resolves to the sum, currency, category and description it
\* was given and nothing else, and the record stored under the new key holds
\* those four values
C3_AddResolvesToStoredRecordButCost ==
    /\ (AddResolved /\ result.op # "addCost") =>
           /\ ReadsBack(result.value, StoreOf(result.op))
           /\ result.value.id \notin DOMAIN result.before
    /\ AddCostResolved =>
           /\ DOMAIN result.value = {"sum", "currency", "category", "description"}
           /\ costsKey \in DOMAIN costs \ DOMAIN result.before
           /\ \A f \in DOMAIN result.value :
                  /\ result.value[f] = result.arg[f]
                  /\ costs[costsKey][f] = result.value[f]

\* a budget was added after a cost and a category were
C3_Witness ==
    /\ result.op = "setBudget"
    /\ result.status = "resolved"
    /\ costsKey > 0
    /\ categoriesKey > 0

\* C4: the report carries totals per type: expenses, incomes, savings (deposits
\* minus withdrawals) and balance (incomes minus expenses), each the sum of the
\* lines of its bucket, and every matched cost is in exactly one bucket
C4_TotalsPerTypeBucket ==
    ReportResolved =>
        LET v == result.value
        IN /\ {"totals", "expenses", "incomes", "savings"} \subseteq DOMAIN v
           /\ v.totals.expenses = reduceSum(v.expenses, Zero)
           /\ v.totals.incomes = reduceSum(v.incomes, Zero)
           /\ v.totals.savings = NumSub(reduceSum(v.savings.deposits, Zero),
                                        reduceSum(v.savings.withdrawals, Zero))
           /\ v.totals.balance = NumSub(v.totals.incomes, v.totals.expenses)
           /\ Len(v.expenses) + Len(v.incomes) + Len(v.savings.deposits)
                 + Len(v.savings.withdrawals)
              = Cardinality(DatedIn(result.year, result.month))

\* the sum of the first n lines, taken from the first line on
RECURSIVE SumOfLines(_, _)
SumOfLines(lines, n) ==
    IF n = 0 THEN Zero ELSE NumAdd(SumOfLines(lines, n - 1), lines[n].sum)

\* C5: the total of a resolved report is the sum of the sums of its lines; a
\* getReport whose rates were fetched resolves, and with no cost of the month
\* it resolves with no lines and a total of zero
C5_TotalIsSumOfLines ==
    /\ ReportResolved =>
          /\ result.value.total.total
                = SumOfLines(result.value.costs, Len(result.value.costs))
          /\ DatedIn(result.year, result.month) = {} =>
                /\ result.value.costs = << >>
                /\ result.value.total.total = Zero
    /\ (result.op = "getReport" /\ result.status = "rejected") =>
          ~result.fetched[Len(result.fetched)].ok

\* a report of two lines with a total that is a number
C5_Witness ==
    /\ ReportResolved
    /\ Len(result.value.costs) = 2
    /\ ~result.value.total.total.nan

UpdateSettled == result.op \in {"updateCost", "updateCategory"}

NotFoundErrors == {"Cost item not found", "Category not found", "NotFoundError"}

\* C6: updateCost and updateCategory with an id absent from the collection
\* fail with a not-found error and leave the collection as it was
C6_UpdateOfAbsentIdFails ==
    (UpdateSettled /\ result.id \notin DOMAIN result.before) =>
        /\ result.status = "rejected"
        /\ result.error \in NotFoundErrors
        /\ StoreOf(result.op) = result.before

\* an update of an absent id on a collection that holds another record
C6_Witness ==
    /\ UpdateSettled
    /\ result.id \notin DOMAIN result.before
    /\ result.before # EmptyStore
    /\ result.status = "rejected"

DeleteSettled == result.op \in {"deleteCost", "deleteCategory"}

\* C7 as claimed: deleteCost and deleteCategory with an absent id fail
C7_DeleteOfAbsentIdFails ==
    (DeleteSettled /\ result.id \notin DOMAIN result.before) =>
        result.status = "rejected"

\* C7 as amended: deleteCost and deleteCategory with an id absent from an
\* existing collection resolve and leave the collection as it was
C7_DeleteOfAbsentIdResolves ==
    (/\ DeleteSettled
     /\ result.id \notin DOMAIN result.before
     /\ (result.op = "deleteCategory" => "categories" \in objectStoreNames)) =>
        /\ result.status = "resolved"
        /\ StoreOf(result.op) = result.before

\* a delete of an absent id on a collection that holds another record
C7_Witness ==
    /\ DeleteSettled
    /\ result.id \notin DOMAIN result.before
    /\ result.before # EmptyStore
    /\ result.status = "resolved"

UpdateCostResolved == result.op = "updateCost" /\ result.status = "resolved"

\* C8 as claimed: the record updateCost stores and resolves with takes every
\* field named in the partial from the partial and keeps every other field
C8_UpdateIsShallowMerge ==
    UpdateCostResolved =>
        /\ costs[result.id] = result.value
        /\ DOMAIN result.value = DOMAIN result.before[result.id] \cup DOMAIN result.arg
        /\ \A f \in DOMAIN result.arg : result.value[f] = result.arg[f]
        /\ \A f \in DOMAIN result.before[result.id] \ DOMAIN result.arg :
               result.value[f] = result.before[result.id][f]

\* C8 as amended: the record takes every field named in the partial other than
\* id from the partial (date as a whole), keeps its id, and keeps every field
\* the partial does not name
C8_UpdateIsShallowMergeButId ==
    UpdateCostResolved =>
        /\ costs[result.id] = result.value
        /\ DOMAIN result.value = DOMAIN result.before[result.id] \cup DOMAIN result.arg
        /\ \A f \in DOMAIN result.arg \ {"id"} : result.value[f] = result.arg[f]
        /\ result.value.id = result.id
        /\ \A f \in DOMAIN result.before[result.id] \ DOMAIN result.arg :
               result.value[f] = result.before[result.id][f]

\* an update that replaced the date and added a field the record did not have
C8_Witness ==
    /\ UpdateCostResolved
    /\ "date" \in DOMAIN result.arg
    /\ result.value.date # result.before[result.id].date
    /\ "type" \notin DOMAIN result.before[result.id]
    /\ "type" \in DOMAIN result.value

\* one of the fetches of the settled promise failed
FetchFailed(fetched) == \E i \in 1 .. Len(fetched) : ~fetched[i].ok

\* C9: a getReport or getStatistics one of whose rate fetches failed rejects and
\* resolves to nothing; no promise is carried on after a failed fetch
C9_FailedFetchRejects ==
    /\ (result.op \in {"getReport", "getStatistics"} /\ FetchFailed(result.fetched)) =>
          /\ result.status = "rejected"
          /\ "value" \notin DOMAIN result
    /\ call # NoCall => ~FetchFailed(call.fetched)

\* getStatistics rejected on the fetch of its second report
C9_Witness ==
    /\ result.op = "getStatistics"
    /\ result.status = "rejected"
    /\ Len(result.fetched) = 3

\* the currencies of the stored costs the report is about
MatchedCurrencies == {costs[k].currency : k \in DatedIn(result.year, result.month)}

\* C10: getReport does not resolve when the fetched rate map lacks the target
\* currency or the currency of a matched cost
C10_MissingRateFails ==
    ReportResolved =>
        ({result.currency} \cup MatchedCurrencies)
            \subseteq DOMAIN result.fetched[Len(result.fetched)].rates

\* the key of the stored cost that line i of a report over the keys is made
\* from: the cursor visits the keys in ascending order
RECURSIVE KeyOfLine(_, _)
KeyOfLine(keys, i) ==
    LET k == CHOOSE j \in keys : \A l \in keys : j <= l
    IN IF i = 1 THEN k ELSE KeyOfLine(keys \ {k}, i - 1)

\* C11: in a resolved report every line of a stored cost whose currency is the
\* report's currency carries the stored sum unchanged, whatever rate the
\* fetched map gives that currency
C11_SameCurrencyUnchanged ==
    ReportResolved =>
        \A i \in 1 .. Len(result.value.costs) :
            LET cost == costs[KeyOfLine(DatedIn(result.year, result.month), i)]
            IN (/\ cost.currency = result.currency
                /\ result.currency \in DOMAIN result.fetched[Len(result.fetched)].rates) =>
                   result.value.costs[i].sum = cost.sum

StatisticsResolved == result.op = "getStatistics" /\ result.status = "resolved"

\* C12: resolved statistics carry changePercentage 0 when totalLastMonth is 0,
\* whatever totalThisMonth is, and (totalThisMonth - totalLastMonth) /
\* totalLastMonth * 100 when totalLastMonth is greater than 0
C12_ChangePercentage ==
    StatisticsResolved =>
        LET v == result.value
        IN /\ v.totalLastMonth = Zero => v.changePercentage = Zero
           /\ Positive(v.totalLastMonth) =>
                  v.changePercentage =
                      NumMul(NumDiv(NumSub(v.totalThisMonth, v.totalLastMonth),
                                    v.totalLastMonth),
                             Num(100))

\* statistics of a month with costs after a month without any
C12_Witness ==
    /\ StatisticsResolved
    /\ result.value.totalLastMonth = Zero
    /\ Positive(result.value.totalThisMonth)
    /\ result.value.changePercentage = Zero

\* C13: totalLastMonth of resolved statistics of (year, month) is the total of
\* the report of (year, month - 1) when month > 1 and of (year - 1, 12) when
\* month is 1
C13_LastMonthIsTheMonthBefore ==
    StatisticsResolved =>
        LET year == IF result.month > 1 THEN result.year ELSE result.year - 1
            month == IF result.month > 1 THEN result.month - 1 ELSE 12
        IN result.value.totalLastMonth =
               report(costs, year, month, result.currency,
                      result.fetched[Len(result.fetched)].rates).total.total

\* statistics of a January whose totalLastMonth counts a cost of the December
\* of the year before
C13_Witness ==
    /\ StatisticsResolved
    /\ result.month = 1
    /\ Positive(result.value.totalLastMonth)
    /\ DatedIn(result.year - 1, 12) # {}

\* the records of a store that are expenses: of type expense, or of no type
ExpensesOf(store) ==
    [k \in {j \in DOMAIN store :
               "type" \in DOMAIN store[j] => store[j].type = "expense"} |-> store[k]]

\* C14: totalThisMonth and totalLastMonth of resolved statistics are the totals
\* over the costs of type expense alone: a cost of another type dated in the
\* month changes neither
C14_StatisticsCountOnlyExpenses ==
    StatisticsResolved =>
        /\ result.value.totalThisMonth =
               report(ExpensesOf(result.scanned), result.year, result.month,
                      result.currency, result.fetched[2].rates).total.total
        /\ result.value.totalLastMonth =
               report(ExpensesOf(costs), lastYear(result.year, result.month),
                      lastMonth(result.month), result.currency,
                      result.fetched[3].rates).total.total

\* the budgets the pass in flight, or the pass that ended last, is through with
PassLog == IF pass.pc \in {"none", "getAllBudgets"} THEN << >> ELSE pass.log

Signals(e, type) == {j \in 1 .. Len(e.pushed) : e.pushed[j].type = type}

\* the signal of an evaluated budget is the one its spent and amount call for
SignalAsCalledFor(e) ==
    /\ Len(e.pushed) <= 1
    /\ Signals(e, "budget_exceeded") \cup Signals(e, "budget_warning") = DOMAIN e.pushed
    /\ Signals(e, "budget_exceeded") # {} <=> NumGreater(e.spent, e.budget.amount)
    /\ Signals(e, "budget_warning") # {} <=>
           /\ NumAtLeast(e.budget.amount, e.spent)
           /\ NumAtLeast(NumMul(NumDiv(e.spent, e.budget.amount), Num(100)), Num(80))
    /\ \A j \in DOMAIN e.pushed :
           e.pushed[j].id = << IF e.pushed[j].type = "budget_exceeded"
                               THEN "budget-exceeded" ELSE "budget-warning",
                               e.budget.id >>

\* the signals pushed for the first n budgets of the log, in their order
RECURSIVE PushedUpTo(_, _)
PushedUpTo(log, n) ==
    IF n = 0 THEN << >> ELSE PushedUpTo(log, n - 1) \o log[n].pushed

\* C15: for each budget a pass of checkBudgets evaluates it pushes at most one
\* signal: exceeded exactly when spent > amount, warning exactly when
\* spent <= amount and spent / amount * 100 >= 80, and nothing otherwise
C15_AtMostOneSignalPerBudget ==
    /\ \A i \in 1 .. Len(PassLog) :
           PassLog[i].status = "evaluated" => SignalAsCalledFor(PassLog[i])
    /\ PassLog # << >> => pass.newNotifications = PushedUpTo(PassLog, Len(PassLog))

\* a pass that found one budget with spent equal to its amount and one with
\* spent at four fifths of its amount, and pushed a warning for each
C15_Witness ==
    /\ pass.pc = "done"
    /\ \E i, j \in 1 .. Len(PassLog) :
          /\ PassLog[i].status = "evaluated"
          /\ Positive(PassLog[i].spent)
          /\ PassLog[i].spent = PassLog[i].budget.amount
          /\ Signals(PassLog[i], "budget_warning") # {}
          /\ PassLog[j].status = "evaluated"
          /\ Positive(PassLog[j].spent)
          /\ NumMul(Num(5), PassLog[j].spent) = NumMul(Num(4), PassLog[j].budget.amount)
          /\ Signals(PassLog[j], "budget_warning") # {}

\* the sum of the sums of the records under the keys, each converted into the
\* currency, taken in the order of the keys
RECURSIVE ConvertedSumOf(_, _, _, _)
ConvertedSumOf(store, keys, rates, currency) ==
    IF keys = {} THEN Zero
    ELSE LET k == CHOOSE j \in keys : \A l \in keys : l <= j
         IN NumAdd(ConvertedSumOf(store, keys \ {k}, rates, currency),
                   convertedSum(store[k], rates, currency))

\* C16: for a budget of type category, spent is the sum of the sums of the
\* costs of the budget's category, converted into the budget's currency, and
\* the signal pushed is the one that value and the amount call for
C16_CategorySpentIsTheCategorySum ==
    \A i \in 1 .. Len(PassLog) :
        LET e == PassLog[i]
        IN (e.status = "evaluated" /\ e.budget.type = "category") =>
               /\ \E rates \in RateMaps :
                      e.spent = ConvertedSumOf(e.scanned,
                                               {k \in DOMAIN e.scanned :
                                                   e.scanned[k].category = e.budget.category},
                                               rates, e.budget.currency)
               /\ SignalAsCalledFor(e)

\* the keys of the costs of a store dated in the given year and months
KeysOfYear(store, year, months) ==
    {k \in DOMAIN store : store[k].date.year = year /\ store[k].date.month \in months}

\* the sum over the months 1 .. m of a year of the converted sums of the costs
\* of the month, added month by month
RECURSIVE SpentUpTo(_, _, _, _, _)
SpentUpTo(store, year, m, rates, currency) ==
    IF m = 0 THEN Zero
    ELSE NumAdd(SpentUpTo(store, year, m - 1, rates, currency),
                ConvertedSumOf(store, KeysOfYear(store, year, {m}), rates, currency))

\* the reports of the budget all fetched the same rate map and went over the
\* same costs store
Steady(e) == e.steady /\ Cardinality(e.rates) = 1

\* C17: for a yearly budget evaluated with one rate map and no write in
\* between, spent is the sum of the converted sums of the costs dated in the
\* budget's year, each counted once: every such cost is in exactly one of the
\* twelve months summed, and no cost of another year is
C17_YearlySpentCountsEachCostOnce ==
    \A i \in 1 .. Len(PassLog) :
        LET e == PassLog[i]
        IN (e.status = "evaluated" /\ e.budget.type = "yearly" /\ Steady(e)) =>
               /\ e.spent = SpentUpTo(e.scanned, e.budget.year, 12,
                                       CHOOSE rates \in e.rates : TRUE, e.budget.currency)
               /\ KeysOfYear(e.scanned, e.budget.year, 1 .. 12)
                      = {k \in DOMAIN e.scanned : e.scanned[k].date.year = e.budget.year}
               /\ (KeysOfYear(e.scanned, e.budget.year, 1 .. 12) = {}) => e.spent = Zero

\* a yearly budget evaluated over a store that holds two costs of its year and
\* spent that is a number greater than zero
C17_Witness ==
    \E i \in 1 .. Len(PassLog) :
        /\ PassLog[i].status = "evaluated"
        /\ PassLog[i].budget.type = "yearly"
        /\ Steady(PassLog[i])
        /\ Positive(PassLog[i].spent)
        /\ Cardinality(KeysOfYear(PassLog[i].scanned, PassLog[i].budget.year, 1 .. 12)) = 2

\* C18: a budget whose getReport failed does not end the pass: the pass goes
\* through every budget getAllBudgets gave it, each budget that did not fail
\* gets the signal its own report total and amount call for, and the failed
\* budget gets none, as a budget with nothing spent
C18_FailureDoesNotAbortThePass ==
    /\ pass.pc = "done" =>
           /\ Len(pass.log) = Len(pass.budgets)
           /\ \A i \in 1 .. Len(pass.log) : pass.log[i].budget = pass.budgets[i]
           /\ pass.newNotifications = PushedUpTo(pass.log, Len(pass.log))
    /\ \A i \in 1 .. Len(PassLog) :
           LET e == PassLog[i]
           IN /\ e.status = "failed" =>
                     /\ e.pushed = << >>
                     /\ ~NumGreater(Zero, e.budget.amount)
                     /\ ~NumAtLeast(NumMul(NumDiv(Zero, e.budget.amount), Num(100)),
                                     Num(80))
              /\ e.status = "evaluated" =>
                     /\ SignalAsCalledFor(e)
                     /\ e.budget.type = "monthly" =>
                            \E rates \in e.rates :
                                e.spent = report(e.scanned, e.budget.year, e.budget.month,
                                                 e.budget.currency, rates).total.total

\* a pass whose first budget failed and whose second budget got a signal
C18_Witness ==
    /\ pass.pc = "done"
    /\ Len(pass.log) = 2
    /\ pass.log[1].status = "failed"
    /\ pass.log[2].status = "evaluated"
    /\ pass.log[2].pushed # << >>

\* C19: every stored budget has a month iff it is monthly and a category iff it
\* is a category budget, so a yearly budget has neither
C19_BudgetScopeInvariant ==
    \A k \in DOMAIN budgets :
        /\ "month" \in DOMAIN budgets[k] <=> budgets[k].type = "monthly"
        /\ "category" \in DOMAIN budgets[k] <=> budgets[k].type = "category"
        /\ {"month", "category"} \cap DOMAIN budgets[k] = {} <=> budgets[k].type = "yearly"

\* C20: every stored cost has a sum greater than zero, and an addCost or
\* updateCost given a sum that is not fails and leaves the costs as they were
C20_StoredSumsArePositive ==
    /\ \A k \in DOMAIN costs : Positive(costs[k].sum)
    /\ (/\ result.op \in {"addCost", "updateCost"}
        /\ "sum" \in DOMAIN result.arg
        /\ ~Positive(result.arg.sum)) =>
           /\ result.status = "rejected"
           /\ costs = result.before

\* (year, month, day) tuples in calendar order: a is the day of b or an earlier one
NotAfter(a, b) ==
    \/ a.year < b.year
    \/ a.year = b.year /\ a.month < b.month
    \/ a.year = b.year /\ a.month = b.month /\ a.day <= b.day

RangeResolved == result.op = "getCostsByDateRange" /\ result.status = "resolved"

\* the keys of the costs the range query found stored within the range
KeysWithin(store, startDate, endDate) ==
    {k \in DOMAIN store : NotAfter(startDate, store[k].date) /\ NotAfter(store[k].date, endDate)}

\* C21: getCostsByDateRange(start, end) resolves to exactly the stored costs whose
\* (year, month, day) tuple lies between start and end in calendar order, both ends
\* included: each such cost once, no cost dated before start or after end, and
\* nothing at all when start is after end.
C21_RangeHoldsExactlyTheDays ==
    RangeResolved =>
        /\ {result.value[i].id : i \in 1 .. Len(result.value)}
              = KeysWithin(result.before, result.startDate, result.endDate)
        /\ Len(result.value)
              = Cardinality(KeysWithin(result.before, result.startDate, result.endDate))
        /\ \A i \in 1 .. Len(result.value) :
              result.value[i] = result.before[result.value[i].id]
        /\ ~NotAfter(result.startDate, result.endDate) => result.value = << >>

\* a query from 1 to 31 January 2024 over a cost of 31 December 2023, the day before
\* the start, and a cost of 1 January 2024: only the second is returned
C21_Witness ==
    /\ RangeResolved
    /\ result.startDate = Date(2024, 1, 1)
    /\ result.endDate = Date(2024, 1, 31)
    /\ \E k \in DOMAIN result.before : result.before[k].date = Date(2023, 12, 31)
    /\ Len(result.value) = 1
    /\ result.value[1].date = Date(2024, 1, 1)

\* the collection a read operation goes over
CollectionOf(op) ==
    CASE op = "getAllCosts" -> "costs"
      [] op = "getCategories" -> "categories"
      [] OTHER -> "budgets"

\* C22: a read of a collection that does not exist in the opened database
\* (getCategories, getAllBudgets, getBudget) resolves to an empty result, the empty
\* sequence or null for getBudget, and does not reject.
C22_ReadOfMissingCollectionIsEmpty ==
    (/\ result.op \in {"getCategories", "getAllBudgets", "getBudget"}
     /\ CollectionOf(result.op) \notin objectStoreNames)
        => /\ result.status = "resolved"
           /\ result.value = IF result.op = "getBudget" THEN Null ELSE << >>

\* C23: a request error raised while a collection that exists is scanned reaches the
\* caller: getAllCosts, getCategories and getAllBudgets reject with that error and
\* do not resolve to an empty sequence in its place.
C23_ScanErrorIsSurfaced ==
    (/\ result.op \in {"getAllCosts", "getCategories", "getAllBudgets"}
     /\ CollectionOf(result.op) \in objectStoreNames
     /\ "error" \in DOMAIN result
     /\ result.error \in RequestErrors)
        => result.status = "rejected"

\* C24: once openCostsDB has resolved on a database whose version was raised, the
\* four collections costs, categories, budgets and savingsGoals exist, and every
\* collection that existed before still exists and holds the records it held.
C24_UpgradeAddsAllCollections ==
    result.op = "openCostsDB" =>
        /\ {"costs", "categories", "budgets", "savingsGoals"} \subseteq objectStoreNames
        /\ result.before.objectStoreNames \subseteq objectStoreNames
        /\ costs = result.before.costs
        /\ categories = result.before.categories
        /\ budgets = result.before.budgets

\* the URL the priority order gives: the saved setting, the environment default of
\* the build, the hardcoded fallback
UrlInOrder(saved) ==
    IF saved # "" THEN saved
    ELSE IF processEnv.REACT_APP_EXCHANGE_RATE_URL # "" THEN processEnv.REACT_APP_EXCHANGE_RATE_URL
    ELSE fallbackUrl

\* C25: each getReport call takes the exchange-rate URL at the time of the call, in
\* the order saved setting, environment default, hardcoded fallback, and fetches the
\* rates itself: a call made after the user has saved a URL fetches from that URL,
\* and a resolved report went over the rates of one fetch, its own.
C25_UrlAndRatesOfTheCall ==
    /\ call.op = "getReport" =>
          /\ call.url = UrlInOrder(call.saved)
          /\ call.fetched = << >>
    /\ ReportResolved =>
          /\ result.url = UrlInOrder(result.saved)
          /\ Len(result.fetched) = 1
          /\ result.fetched[1].ok
          /\ result.value = report(costs, result.year, result.month, result.currency,
                                   result.fetched[1].rates)

\* a report resolved from the URL the user saved, on a build that has an
\* environment default
C25_Witness ==
    /\ ReportResolved
    /\ processEnv.REACT_APP_EXCHANGE_RATE_URL # ""
    /\ result.saved = "https://other.example/rates.json"
    /\ result.url = "https://other.example/rates.json"

C27_NotificationIdsDistinct ==
    \A i \in 1 .. Len(notifications), j \in 1 .. Len(notifications) :
        i # j => notifications[i].id # notifications[j].id

\* two overlapping passes have both ended with the same notification to add, one
\* of them after the notification was marked as read, and the list holds it once
C27_Witness ==
    /\ pass.pc = "done"
    /\ earlier.pc = "done"
    /\ Len(notifications) >= 1
    /\ notifications[1].read
    /\ notifications[1].id \in idsOf(pass.newNotifications)
    /\ notifications[1].id \in idsOf(earlier.newNotifications)

\* C28: whichever of deleteCost(id) and updateCost(id, partial) on a stored record
\* runs first, the record is absent once both have settled: a delete leaves no
\* record under the id, and no step, an update least of all, stores a record again
\* under a key the store has handed out and holds no more.
C28_DeletedStaysDeleted ==
    [][/\ \A k \in 1 .. costsKey : k \notin DOMAIN costs => k \notin DOMAIN costs'
       /\ result'.op = "deleteCost" => result'.id \notin DOMAIN costs']_vars

\* an update has settled after a delete of the same record: it was rejected and the
\* record is absent
C28_Witness ==
    /\ result.op = "updateCost"
    /\ result.status = "rejected"
    /\ result.id \in 1 .. costsKey
    /\ result.id \notin DOMAIN costs

\* the store an update has gone over, as it is now
UpdatedStore == IF result.op = "updateCost" THEN costs ELSE categories

\* C29: updateCost and updateCategory change neither the id of a record nor the
\* number of records: the stored and the returned record carry the target id also
\* when the partial names another id, no record appears under the partial's id,
\* every other record is as it was, and a rejected update leaves the store as it was.
C29_UpdateKeepsIdAndRecords ==
    UpdateSettled =>
        /\ DOMAIN UpdatedStore = DOMAIN result.before
        /\ \A k \in DOMAIN UpdatedStore \ {result.id} : UpdatedStore[k] = result.before[k]
        /\ result.status = "rejected" => UpdatedStore = result.before
        /\ result.status = "resolved" =>
              /\ result.value.id = result.id
              /\ UpdatedStore[result.id] = result.value
              /\ \A k \in DOMAIN UpdatedStore : UpdatedStore[k].id = k

\* an update of the first of two records with a partial that names the id of the
\* second has resolved
C29_Witness ==
    /\ UpdateSettled
    /\ result.status = "resolved"
    /\ "id" \in DOMAIN result.arg
    /\ result.arg.id # result.id
    /\ result.arg.id \in DOMAIN result.before
    /\ result.value.id = result.id

\* the budget is one of the scope asked for: the year, and the category, the month
\* or, when neither is given, the year as a whole
InScope(budget, year, month, category) ==
    /\ budget.year = year
    /\ \/ category # "" /\ budget.type = "category" /\ "category" \in DOMAIN budget
          /\ budget.category = category
       \/ month # 0 /\ budget.type = "monthly" /\ "month" \in DOMAIN budget
          /\ budget.month = month
       \/ month = 0 /\ category = "" /\ budget.type = "yearly"

KeysInScope(store, year, month, category) ==
    {k \in DOMAIN store : InScope(store[k], year, month, category)}

\* C30: a setBudget that resolves has inserted a record under a new key and left
\* every stored budget as it was (a rejected one has stored nothing), and getBudget
\* resolves to the budget of the scope asked for that has the lowest id, the first
\* of two set for the same scope, or to null when there is none; a budget it
\* resolves to is of the year asked for, and yearly when neither month nor category
\* is given.
C30_SetBudgetInsertsGetBudgetFindsFirst ==
    /\ result.op = "setBudget" =>
          /\ \A k \in DOMAIN result.before : k \in DOMAIN budgets /\ budgets[k] = result.before[k]
          /\ IF result.status = "resolved"
             THEN /\ Cardinality(DOMAIN budgets) = Cardinality(DOMAIN result.before) + 1
                  /\ result.value.id \notin DOMAIN result.before
                  /\ budgets[result.value.id] = result.value
                  /\ result.value = Spread(result.arg, [id |-> result.value.id])
             ELSE /\ budgets = result.before
                  /\ "budgets" \notin objectStoreNames
    /\ (result.op = "getBudget" /\ result.status = "resolved") =>
          LET keys == KeysInScope(result.before, result.year, result.month, result.category)
          IN IF keys = {} THEN result.value = Null
             ELSE /\ result.value.id \in keys
                  /\ \A k \in keys : result.value.id <= k
                  /\ result.value = result.before[result.value.id]
                  /\ result.value.year = result.year
                  /\ (result.month = 0 /\ result.category = "") => result.value.type = "yearly"

\* two budgets were set for the year 2023 as a whole, with different amounts, and
\* getBudget(2023) resolved to the first
C30_Witness ==
    /\ result.op = "getBudget"
    /\ result.status = "resolved"
    /\ result.month = 0
    /\ result.category = ""
    /\ Cardinality(KeysInScope(result.before, result.year, 0, "")) = 2
    /\ result.before[1].amount # result.before[2].amount
    /\ result.value = result.before[1]

====
